---- MODULE Spec2Model ----
(***************************************************************************)
(* Grant-Fit dashboard (CT RISE): the grant analyzer (analyzer.py), its    *)
(* retry wrappers, deadline filter and response extractor, and the         *)
(* ranking variants that share them.                                        *)
(*                                                                          *)
(* Text is modelled as a sequence of one-character strings, so that         *)
(* lower(), strip(), slicing and strptime() are computed character by       *)
(* character.  A Python value is a tagged record: Str(s), PyNone, Num(n),  *)
(* Flt(x), NaN, Dict(m), List(e).                                          *)
(***************************************************************************)
EXTENDS Integers, Sequences, FiniteSets, TLC

VARIABLES
    csv,      \* grants_history.csv: "absent" or the sequence of written rows
    tbl,      \* st.session_state.tbl of the session that acts ("unset" before its first run)
    peer,     \* st.session_state.tbl of a second browser session
    last,     \* what the last action of the analyzer did
    today,    \* dt.date.today(), <<year, month, day>>
    rt,       \* a retry loop in progress
    dlIn,     \* argument of a deadline_ok call
    dlOut,    \* its result
    raw,      \* a model reply handed to an extractor
    exOut,    \* the extractor's result
    fg,       \* a source adapter's prompt loop in progress
    bat       \* a ranking batch in progress

vars == <<csv, tbl, peer, last, today, rt, dlIn, dlOut, raw, exOut, fg, bat>>

(***************************************************************************)
(* Python values and text                                                   *)
(***************************************************************************)
Str(s) == [t |-> "str", s |-> s]
PyNone == [t |-> "none"]
Num(n) == [t |-> "int", n |-> n]        \* an int
Flt(x) == [t |-> "float", n |-> x]      \* a float, in tenths
NaN    == [t |-> "nan"]

\* The upper-case letters with their lower-case forms
LowerOf == [A |-> "a", B |-> "b", C |-> "c", D |-> "d", E |-> "e", F |-> "f",
            G |-> "g", H |-> "h", I |-> "i", J |-> "j", K |-> "k", L |-> "l",
            M |-> "m", N |-> "n", O |-> "o", P |-> "p", Q |-> "q", R |-> "r",
            S |-> "s", T |-> "t", U |-> "u", V |-> "v", W |-> "w", X |-> "x",
            Y |-> "y", Z |-> "z"]

LowerChar(c) == IF c \in DOMAIN LowerOf THEN LowerOf[c] ELSE c

\* str.lower()
Lower(s) == [i \in 1..Len(s) |-> LowerChar(s[i])]

\* s[:n]
Take(s, n) == IF Len(s) <= n THEN s ELSE SubSeq(s, 1, n)

IsSpace(c) == c \in {" ", "\t", "\n"}

RECURSIVE LStrip(_)
LStrip(s) == IF s # <<>> /\ IsSpace(Head(s)) THEN LStrip(Tail(s)) ELSE s

RECURSIVE RStrip(_)
RStrip(s) ==
    IF s # <<>> /\ IsSpace(s[Len(s)]) THEN RStrip(SubSeq(s, 1, Len(s) - 1)) ELSE s

\* str.strip()
Strip(s) == RStrip(LStrip(s))

Digits == <<"0","1","2","3","4","5","6","7","8","9">>
IsDigit(c) == c \in {"0","1","2","3","4","5","6","7","8","9"}
DigitVal(c) == (CHOOSE i \in 1..10 : Digits[i] = c) - 1

(***************************************************************************)
(* deadline_ok (analyzer.py 63-66)                                          *)
(***************************************************************************)
IsLeap(y) == (y % 4 = 0 /\ y % 100 # 0) \/ y % 400 = 0

DaysInMonth(y, m) ==
    IF m = 2 THEN (IF IsLeap(y) THEN 29 ELSE 28)
    ELSE IF m \in {4, 6, 9, 11} THEN 30 ELSE 31

NoDate == <<0, 0, 0>>

\* The month directive %m: 1[0-2] | 0[1-9] | [1-9], tried in this order at
\* position p of s; the result is <<value, next position>> or <<0, 0>>.
MonthAt(s, p) ==
    LET two == p + 1 <= Len(s) /\ IsDigit(s[p]) /\ IsDigit(s[p + 1])
    IN  IF two /\ s[p] = "1" /\ DigitVal(s[p + 1]) <= 2
             THEN <<10 + DigitVal(s[p + 1]), p + 2>>
        ELSE IF two /\ s[p] = "0" /\ DigitVal(s[p + 1]) >= 1
             THEN <<DigitVal(s[p + 1]), p + 2>>
        ELSE IF p <= Len(s) /\ IsDigit(s[p]) /\ DigitVal(s[p]) >= 1
             THEN <<DigitVal(s[p]), p + 1>>
        ELSE <<0, 0>>

\* The day directive %d: 3[01] | [12]\d | 0[1-9] | [1-9] | " "[1-9].
DayAt(s, p) ==
    LET two == p + 1 <= Len(s) /\ IsDigit(s[p]) /\ IsDigit(s[p + 1])
    IN  IF two /\ s[p] = "3" /\ DigitVal(s[p + 1]) <= 1
             THEN <<30 + DigitVal(s[p + 1]), p + 2>>
        ELSE IF two /\ s[p] \in {"1", "2"}
             THEN <<10 * DigitVal(s[p]) + DigitVal(s[p + 1]), p + 2>>
        ELSE IF two /\ s[p] = "0" /\ DigitVal(s[p + 1]) >= 1
             THEN <<DigitVal(s[p + 1]), p + 2>>
        ELSE IF p <= Len(s) /\ IsDigit(s[p]) /\ DigitVal(s[p]) >= 1
             THEN <<DigitVal(s[p]), p + 1>>
        ELSE IF p + 1 <= Len(s) /\ s[p] = " " /\ IsDigit(s[p + 1])
                /\ DigitVal(s[p + 1]) >= 1
             THEN <<DigitVal(s[p + 1]), p + 2>>
        ELSE <<0, 0>>

\* dt.datetime.strptime(s, "%Y-%m-%d").date(): the date, or NoDate where
\* strptime raises ValueError (no match, unconverted data, no such day).
strptime(s) ==
    IF ~(Len(s) >= 5 /\ (\A i \in 1..4 : IsDigit(s[i])) /\ s[5] = "-")
    THEN NoDate
    ELSE
      LET y == 1000 * DigitVal(s[1]) + 100 * DigitVal(s[2])
               + 10 * DigitVal(s[3]) + DigitVal(s[4])
          m == MonthAt(s, 6)
      IN  IF m[2] = 0 \/ m[2] > Len(s) \/ s[m[2]] # "-" THEN NoDate
          ELSE
            LET d == DayAt(s, m[2] + 1)
            IN  IF d[2] = 0 \/ d[2] # Len(s) + 1 THEN NoDate
                ELSE IF y < 1 \/ d[1] > DaysInMonth(y, m[1]) THEN NoDate
                ELSE <<y, m[1], d[1]>>

\* date >= date
DateGE(a, b) ==
    \/ a[1] > b[1]
    \/ a[1] = b[1] /\ a[2] > b[2]
    \/ a[1] = b[1] /\ a[2] = b[2] /\ a[3] >= b[3]

Rolling == <<"r","o","l","l","i","n","g">>

\* deadline_ok(dl): "True", "False", or "raise" when dl.lower() (outside the
\* try) is applied to a value that is no string.
deadline_ok(dl, now) ==
    IF dl.t # "str" THEN "raise"
    ELSE IF Lower(dl.s) = Rolling THEN "True"
    ELSE LET d == strptime(Take(dl.s, 10))
         IN  IF d = NoDate THEN "False"
             ELSE IF DateGE(d, now) THEN "True" ELSE "False"

(***************************************************************************)
(* Model replies.  A reply is a sequence of lexemes: the JSON punctuation,  *)
(* a key with its colon, a scalar literal, a run of prose, the opening      *)
(* fence (three backquotes and json) and the closing fence (three         *)
(* backquotes).  White space is insignificant                              *)
(* to the regular expressions and to json.loads alike and is left out.     *)
(***************************************************************************)
Tok(c)  == [c |-> c, k |-> "", v |-> PyNone]
Key(k)  == [c |-> "key", k |-> k, v |-> PyNone]
Lit(v)  == [c |-> "lit", k |-> "", v |-> v]

LBrace == Tok("{")
RBrace == Tok("}")
LBrack == Tok("[")
RBrack == Tok("]")
Comma  == Tok(",")
Fence  == Tok("fence")
Close  == Tok("close")
Prose  == Tok("txt")

Dict(m)  == [t |-> "dict", m |-> m]     \* m: sequence of <<key, value>>
List(e)  == [t |-> "list", e |-> e]

NoParse == [ok |-> FALSE, v |-> PyNone, p |-> 0]

\* The JSON grammar over lexemes: a value starting at position p of s.
\* ParseValue yields [ok, v, p] with p the position after the value.
RECURSIVE ParseValue(_, _), ParseMembers(_, _, _), ParseElems(_, _, _)
ParseValue(s, p) ==
    IF p > Len(s) THEN NoParse
    ELSE IF s[p].c = "lit" THEN [ok |-> TRUE, v |-> s[p].v, p |-> p + 1]
    ELSE IF s[p] = LBrace THEN
        IF p + 1 <= Len(s) /\ s[p + 1] = RBrace
        THEN [ok |-> TRUE, v |-> Dict(<<>>), p |-> p + 2]
        ELSE ParseMembers(s, p + 1, <<>>)
    ELSE IF s[p] = LBrack THEN
        IF p + 1 <= Len(s) /\ s[p + 1] = RBrack
        THEN [ok |-> TRUE, v |-> List(<<>>), p |-> p + 2]
        ELSE ParseElems(s, p + 1, <<>>)
    ELSE NoParse

\* members after "{" or ",": key value, then "," or "}"
ParseMembers(s, p, acc) ==
    IF p > Len(s) \/ s[p].c # "key" THEN NoParse
    ELSE LET r == ParseValue(s, p + 1)
         IN  IF ~r.ok \/ r.p > Len(s) THEN NoParse
             ELSE LET acc2 == Append(acc, <<s[p].k, r.v>>)
                  IN  IF s[r.p] = RBrace
                           THEN [ok |-> TRUE, v |-> Dict(acc2), p |-> r.p + 1]
                      ELSE IF s[r.p] = Comma
                           THEN ParseMembers(s, r.p + 1, acc2)
                      ELSE NoParse

\* elements after "[" or ",": value, then "," or "]"
ParseElems(s, p, acc) ==
    LET r == ParseValue(s, p)
    IN  IF ~r.ok \/ r.p > Len(s) THEN NoParse
        ELSE LET acc2 == Append(acc, r.v)
             IN  IF s[r.p] = RBrack
                      THEN [ok |-> TRUE, v |-> List(acc2), p |-> r.p + 1]
                 ELSE IF s[r.p] = Comma
                      THEN ParseElems(s, r.p + 1, acc2)
                 ELSE NoParse

\* json.loads(s): [ok |-> TRUE, v |-> value], or ok = FALSE for JSONDecodeError
\* (no value, or extra data after it).
json_loads(s) ==
    LET r == ParseValue(s, 1)
    IN  IF r.ok /\ r.p = Len(s) + 1 THEN [ok |-> TRUE, v |-> r.v]
        ELSE [ok |-> FALSE, v |-> PyNone]

\* dict.get(k, default): the last member named k (json.loads keeps the last).
DictGet(d, k, default) ==
    LET hits == {i \in 1..Len(d.m) : d.m[i][1] = k}
    IN  IF hits = {} THEN default
        ELSE d.m[CHOOSE i \in hits : \A j \in hits : j <= i][2]

\* d[k] = v
DictSet(d, k, v) ==
    Dict(SelectSeq(d.m, LAMBDA kv : kv[1] # k) \o <<<<k, v>>>>)

NoMatch == <<>>

Min(S) == CHOOSE x \in S : \A y \in S : x <= y
Max(S) == CHOOSE x \in S : \A y \in S : y <= x

\* The closer that belongs to an opener.
Closer(t) == IF t = LBrace THEN RBrace ELSE RBrack

\* The first pattern of scrape, the fenced one (analyzer.py 57): at the
\* leftmost opening fence that is followed by "{" or "[", the span up to the
\* first matching closer that is followed by three backquotes (which the
\* start of another opening fence supplies as well).
FencedSpan(s) ==
    LET ends(i) == {j \in (i + 2)..(Len(s) - 1) :
                       /\ s[j] = Closer(s[i + 1])
                       /\ s[j + 1] \in {Close, Fence}}
        starts  == {i \in 1..(Len(s) - 1) :
                       /\ s[i] = Fence
                       /\ s[i + 1] \in {LBrace, LBrack}
                       /\ ends(i) # {}}
    IN  IF starts = {} THEN NoMatch
        ELSE LET i == Min(starts) IN SubSeq(s, i + 1, Min(ends(i)))

\* re.search(r"(\{.*?\}|\[.*?\])", raw, re.S).group(1): from the leftmost "{"
\* or "[" that has its closer somewhere after it, up to the first such closer.
FirstSpan(s) ==
    LET ends(i) == {j \in (i + 1)..Len(s) : s[j] = Closer(s[i])}
        starts  == {i \in 1..Len(s) : s[i] \in {LBrace, LBrack} /\ ends(i) # {}}
    IN  IF starts = {} THEN NoMatch
        ELSE LET i == Min(starts) IN SubSeq(s, i, Min(ends(i)))

\* re.search(r"\[.*\]", raw, re.S).group(): greedy, first "[" to last "]".
GreedyArraySpan(s) ==
    LET opens == {i \in 1..Len(s) : s[i] = LBrack /\ \E j \in (i + 1)..Len(s) : s[j] = RBrack}
    IN  IF opens = {} THEN NoMatch
        ELSE LET i == Min(opens)
             IN  SubSeq(s, i, Max({j \in (i + 1)..Len(s) : s[j] = RBrack}))

NA == Str(<<"N","/","A">>)

CanonKeys == <<"title", "sponsor", "amount", "deadline", "summary", "url">>

\* {k: obj.get(k, "N/A") for k in (...)} as a record
Record(obj) == [k \in {CanonKeys[i] : i \in 1..6} |-> DictGet(obj, k, NA)]

Result(r, g) == [r |-> r, g |-> g]

\* scrape(url) from the reply on (analyzer.py 57-61): Result("None", _) when
\* no span is found, Result("raise", _) when an exception leaves the function
\* (json.loads on the span, obj[0] of an empty list, item assignment on a
\* value that is no dict), Result("ok", g) with the record otherwise.
scrape(url, reply) ==
    LET m == IF FencedSpan(reply) # NoMatch THEN FencedSpan(reply) ELSE FirstSpan(reply)
    IN  IF m = NoMatch THEN Result("None", PyNone)
        ELSE LET j == json_loads(m)
             IN  IF ~j.ok THEN Result("raise", PyNone)
                 ELSE IF j.v.t = "list" /\ j.v.e = <<>> THEN Result("raise", PyNone)
                 ELSE LET obj == IF j.v.t = "list" THEN j.v.e[1] ELSE j.v
                      IN  IF obj.t # "dict" THEN Result("raise", PyNone)
                          ELSE Result("ok", Record(DictSet(obj, "url", Str(url))))

(***************************************************************************)
(* Retry loops.  Every loop is "for i in range(max): try: return call()     *)
(* except <retryable>: sleep(delay(i))" followed by what the function does  *)
(* when the range is used up.                                               *)
(***************************************************************************)
API_RETRY      == 4     \* analyzer.py
BACKOFF        == 2
MAX_RETRIES    == 4     \* grant_capstone.py
DELAY          == 2
RETRIES        == 3     \* app.py
OPENAI_RETRIES == 5     \* grant_app_Xfinal.py
BASE_DELAY     == 2
MAX_RETRY      == 4     \* test.py
SLEEP          == 2

Loops == {"analyzer.retry", "capstone.embed", "app.get_embedding",
          "app.gpt_brief", "xfinal.embed", "test.ask_chat"}

\* max: the range of the loop; base, exp: the sleep after attempt i is
\* base * (i + 1), or base * 2^i; retry: the exceptions the loop catches;
\* raises: the other exceptions its try block can raise; giveup: what follows
\* the loop.
LoopCfg(l) ==
    CASE l = "analyzer.retry" ->
           [max |-> API_RETRY, base |-> BACKOFF, exp |-> FALSE,
            retry |-> {"RateLimitError"}, raises |-> {"APIError"},
            giveup |-> "st.stop"]
      [] l = "capstone.embed" ->
           [max |-> MAX_RETRIES, base |-> DELAY, exp |-> FALSE,
            retry |-> {"RateLimitError"}, raises |-> {"APIError"},
            giveup |-> "st.stop"]
      [] l = "app.get_embedding" ->
           [max |-> RETRIES, base |-> 5, exp |-> FALSE,
            retry |-> {"RateLimitError"}, raises |-> {"APIError"},
            giveup |-> "dummy vector"]
      [] l = "app.gpt_brief" ->
           [max |-> RETRIES, base |-> 5, exp |-> FALSE,
            retry |-> {"RateLimitError", "JSONDecodeError"},
            raises |-> {"APIError", "AttributeError"},
            giveup |-> "placeholder"]
      [] l = "xfinal.embed" ->
           [max |-> OPENAI_RETRIES, base |-> BASE_DELAY, exp |-> TRUE,
            retry |-> {"RateLimitError"}, raises |-> {"APIError"},
            giveup |-> "dummy vector"]
      [] l = "test.ask_chat" ->
           [max |-> MAX_RETRY, base |-> SLEEP, exp |-> FALSE,
            retry |-> {"RateLimitError"}, raises |-> {"APIError"},
            giveup |-> "st.stop"]

\* What one attempt can end in.
Outcomes(l) == {"ok"} \cup LoopCfg(l).retry \cup LoopCfg(l).raises

RECURSIVE Pow2(_)
Pow2(n) == IF n = 0 THEN 1 ELSE 2 * Pow2(n - 1)

\* The argument of time.sleep after the failure of attempt i.
SleepFor(l, i) ==
    IF LoopCfg(l).exp THEN LoopCfg(l).base * Pow2(i) ELSE LoopCfg(l).base * (i + 1)

\* A loop about to make its first attempt.  i: the loop variable; outs: the
\* outcome of every attempt so far; slept: every sleep so far.
RetryStart(l) ==
    [loop |-> l, st |-> "Attempting", i |-> 0, outs |-> <<>>, slept |-> <<>>,
     res |-> "none"]

\* The try block of iteration r.i with the given outcome of the call.
AttemptStep(r, out) ==
    LET r1 == [r EXCEPT !.outs = Append(@, out)]
    IN  IF out = "ok" THEN [r1 EXCEPT !.st = "Returned", !.res = "value"]
        ELSE IF out \in LoopCfg(r.loop).retry THEN [r1 EXCEPT !.st = "BackingOff"]
        ELSE [r1 EXCEPT !.st = "Raised", !.res = out]

\* A loop that runs once more than its range (<= for <)
SleepStep_OneMore(r) ==
    LET r1 == [r EXCEPT !.slept = Append(@, SleepFor(r.loop, r.i)), !.i = @ + 1]
    IN  IF r.i + 1 <= LoopCfg(r.loop).max
        THEN [r1 EXCEPT !.st = "Attempting"]
        ELSE [r1 EXCEPT !.st = "Exhausted", !.res = LoopCfg(r.loop).giveup]

\* The except block of iteration r.i, and the loop's next iteration or the
\* statements after the loop.
SleepStep(r) ==
    LET r1 == [r EXCEPT !.slept = Append(@, SleepFor(r.loop, r.i)), !.i = @ + 1]
    IN  IF r.i + 1 < LoopCfg(r.loop).max
        THEN [r1 EXCEPT !.st = "Attempting"]
        ELSE [r1 EXCEPT !.st = "Exhausted", !.res = LoopCfg(r.loop).giveup]

\* The whole loop against the outcomes outs[1], outs[2], ... of its attempts.
RECURSIVE RunLoop(_, _)
RunLoop(r, outs) ==
    IF r.st = "Attempting" /\ Len(r.outs) < Len(outs)
        THEN RunLoop(AttemptStep(r, outs[Len(r.outs) + 1]), outs)
    ELSE IF r.st = "BackingOff" THEN RunLoop(SleepStep(r), outs)
    ELSE r

(***************************************************************************)
(* The table and its CSV file (analyzer.py 22-23, 48-49)                    *)
(***************************************************************************)
COLS == <<"Title", "Match", "Feasibility", "Amount", "Deadline", "Sponsor",
          "Summary", "URL", "Recommendation">>

ColSet == {COLS[i] : i \in 1..Len(COLS)}

\* The decimal digits of a natural number.
RECURSIVE NatText(_)
NatText(n) == IF n < 10 THEN <<Digits[n + 1]>>
              ELSE NatText(n \div 10) \o <<Digits[(n % 10) + 1]>>

Abs(n) == IF n < 0 THEN -n ELSE n

IntText(n) == IF n < 0 THEN <<"-">> \o NatText(-n) ELSE NatText(n)

\* repr of a float with one decimal, given in tenths: 750 -> 75.0
FloatText(x) ==
    (IF x < 0 THEN <<"-">> ELSE <<>>)
        \o NatText(Abs(x) \div 10) \o <<".">> \o <<Digits[(Abs(x) % 10) + 1]>>

\* What DataFrame.to_csv writes for one value: text as it is, a number by
\* its repr, None and NaN as the empty field (na_rep = "").
CsvCell(v) ==
    CASE v.t = "str"   -> v.s
      [] v.t = "int"   -> IntText(v.n)
      [] v.t = "float" -> FloatText(v.n)
      [] OTHER         -> <<>>

\* df.to_csv(CSV_PATH, index=False): one record of fields per row
to_csv(rows) == [i \in 1..Len(rows) |-> [c \in ColSet |-> CsvCell(rows[i][c])]]

\* The fields read_csv takes for missing values (its default na_values) among
\* the texts of the model.
NaTexts == { <<>>, <<"N","/","A">>, <<"N","A">>, <<"n","/","a">>,
             <<"N","a","N">>, <<"n","a","n">>, <<"n","u","l","l">>,
             <<"N","U","L","L">>, <<"N","o","n","e">> }

AllDigits(s) == s # <<>> /\ \A i \in 1..Len(s) : IsDigit(s[i])

Unsigned(s) == IF s # <<>> /\ s[1] = "-" THEN Tail(s) ELSE s

IsIntText(s) == AllDigits(Unsigned(s))

\* digits "." digit
IsFloatText(s) ==
    LET u == Unsigned(s)
    IN  /\ Len(u) >= 3
        /\ u[Len(u) - 1] = "."
        /\ AllDigits(SubSeq(u, 1, Len(u) - 2))
        /\ IsDigit(u[Len(u)])

RECURSIVE NatVal(_)
NatVal(s) == IF s = <<>> THEN 0
             ELSE 10 * NatVal(SubSeq(s, 1, Len(s) - 1)) + DigitVal(s[Len(s)])

Sign(s) == IF s # <<>> /\ s[1] = "-" THEN -1 ELSE 1

IntVal(s) == Sign(s) * NatVal(Unsigned(s))

\* the value in tenths
FloatVal(s) ==
    LET u == Unsigned(s)
    IN  Sign(s) * (10 * NatVal(SubSeq(u, 1, Len(u) - 2)) + DigitVal(u[Len(u)]))

\* pd.read_csv(CSV_PATH): a missing-value text is NaN; a column whose other
\* fields are all numbers is numeric (float when one of them is a float or
\* missing), any other column holds its fields as text.
read_csv(file) ==
    LET present(c) == {i \in 1..Len(file) : file[i][c] \notin NaTexts}
        numeric(c) == \A i \in present(c) : IsIntText(file[i][c]) \/ IsFloatText(file[i][c])
        ints(c)    == /\ present(c) = 1..Len(file)
                      /\ \A i \in present(c) : IsIntText(file[i][c])
        cell(i, c) ==
            IF file[i][c] \in NaTexts THEN NaN
            ELSE IF ~numeric(c) THEN Str(file[i][c])
            ELSE IF ints(c) THEN Num(IntVal(file[i][c]))
            ELSE IF IsIntText(file[i][c]) THEN Flt(10 * IntVal(file[i][c]))
            ELSE Flt(FloatVal(file[i][c]))
    IN  [i \in 1..Len(file) |-> [c \in ColSet |-> cell(i, c)]]

NoFile == [exists |-> FALSE, rows |-> <<>>]

\* load_history(): the file's rows, or the empty frame when there is no file
load_history(f) == IF f.exists THEN read_csv(f.rows) ELSE <<>>

\* save_history(df)
save_history(rows) == [exists |-> TRUE, rows |-> to_csv(rows)]

(***************************************************************************)
(* Scoring (analyzer.py 78-81, 107, 129)                                    *)
(* A match is kept in hundredths of a percent: cosine 0.7496 is 7496.       *)
(***************************************************************************)
feasibility_from_match(match) ==
    IF match >= 7500 THEN <<"H","i","g","h">>
    ELSE IF match >= 5000 THEN <<"M","e","d","i","u","m">>
    ELSE <<"L","o","w">>

\* round(match, 1), in tenths; a tie goes to the even neighbour
Round1(match) ==
    LET q == match \div 10
        r == match % 10
    IN  IF r < 5 THEN q
        ELSE IF r > 5 THEN q + 1
        ELSE IF q % 2 = 0 THEN q ELSE q + 1

\* sort_values(column, ascending=False) with the default kind, quicksort,
\* which is not stable: any order of the rows by falling key (keys[i] is the
\* value of the column in rows[i]).  FallingOrders: the orders of the
\* positions S by falling key.
RECURSIVE FallingOrders(_, _)
FallingOrders(S, keys) ==
    IF S = {} THEN {<<>>}
    ELSE LET firsts == {i \in S : \A j \in S : keys[i] >= keys[j]}
         IN  UNION {{<<i>> \o rest : rest \in FallingOrders(S \ {i}, keys)} : i \in firsts}

sort_values(rows, keys) ==
    { [i \in 1..Len(rows) |-> rows[p[i]]] : p \in FallingOrders(1..Len(rows), keys) }

\* The order a stable sort gives, one of those: the rows by falling Match,
\* rows of equal Match in the order they had.
RECURSIVE SortDesc(_)
SortDesc(rows) ==
    IF rows = <<>> THEN <<>>
    ELSE LET top  == Max({rows[i].Match.n : i \in 1..Len(rows)})
             k    == Min({i \in 1..Len(rows) : rows[i].Match.n = top})
             rest == [i \in 1..(Len(rows) - 1) |-> IF i < k THEN rows[i] ELSE rows[i + 1]]
         IN  <<rows[k]>> \o SortDesc(rest)

\* Series.str: usable on the empty column and on a column that holds text
StrAccessorOk(rows, c) == rows = <<>> \/ \E i \in 1..Len(rows) : rows[i][c].t = "str"

\* The duplicate test (analyzer.py 103-104): "dup", "new", or "raise" for
\* the AttributeError of .str on a column without text or of .lower() on a
\* title that is no string.  The title is looked at only when no URL matches.
DupCheck(rows, g) ==
    LET same(c, s) == LET low == Lower(s)
                      IN  \E i \in 1..Len(rows) :
                              rows[i][c].t = "str" /\ Lower(rows[i][c].s) = low
    IN  IF ~StrAccessorOk(rows, "URL") THEN "raise"
        ELSE IF same("URL", g.url.s) THEN "dup"
        ELSE IF ~StrAccessorOk(rows, "Title") \/ g.title.t # "str" THEN "raise"
        ELSE IF same("Title", g.title.s) THEN "dup"
        ELSE "new"

\* The new row (analyzer.py 128-132)
NewRow(g, match, short) ==
    [Title |-> g.title, Match |-> Flt(Round1(match)),
     Feasibility |-> Str(feasibility_from_match(match)),
     Amount |-> g.amount, Deadline |-> g.deadline, Sponsor |-> g.sponsor,
     Summary |-> g.summary, URL |-> g.url, Recommendation |-> Str(short)]

(***************************************************************************)
(* The Analyze handler (analyzer.py 96-139)                                 *)
(***************************************************************************)
\* How a call through @retry can end for the handler: the attempts of the
\* loop against every run of outcomes of the service.
CallResults ==
    {RunLoop(RetryStart("analyzer.retry"), o).res :
        o \in [1..API_RETRY -> Outcomes("analyzer.retry")]}

Run(outcome, steps, row) == [outcome |-> outcome, steps |-> steps, row |-> row]

NoRow == [c \in ColSet |-> PyNone]

\* A failed retry-wrapped call: st.stop() after the last attempt, or the
\* exception that passed through the wrapper.
Failed(res, steps) ==
    Run(IF res = "st.stop" THEN "stopped" ELSE "exception", steps, NoRow)

Short == <<"f","i","t">>

\* From the embedding calls on (analyzer.py 107-139), for a candidate that
\* passed the filters: every way the rest of the handler can go.
RankRuns(g, cosines, steps) ==
    LET s1 == Append(steps, "embed summary")
        s2 == Append(s1, "embed mission")
        s3 == Append(s2, "chat short")
        s4 == Append(s3, "chat long")
        s5 == Append(s4, "pdf")
        fails(st) == {Failed(r, st) : r \in CallResults \ {"value"}}
    IN  fails(s1) \cup fails(s2) \cup fails(s3) \cup fails(s4)
        \cup {Run("exception", s5, NoRow)}
        \cup {Run("added", s5 \o <<"concat sort", "save", "success">>,
                  NewRow(g, c, Short)) : c \in cosines}

\* From the result g of scrape on (analyzer.py 98-139): every way the
\* handler can go for the table df.
ScrapedRuns(df, g, cosines, now) ==
    LET s2 == <<"chat search", "extract">>
        s3 == Append(s2, "deadline_ok")
        s4 == Append(s3, "duplicate check")
        ok == deadline_ok(g.g.deadline, now)
        dup == DupCheck(df, g.g)
    IN  IF g.r = "None" THEN {Run("unparsed", s2, NoRow)}
        ELSE IF g.r = "raise" THEN {Run("exception", s2, NoRow)}
        ELSE IF ok = "raise" THEN {Run("exception", s3, NoRow)}
        ELSE IF ok = "False" THEN {Run("expired", s3, NoRow)}
        ELSE IF dup = "raise" THEN {Run("exception", s4, NoRow)}
        ELSE IF dup = "dup" THEN {Run("duplicate", s4, NoRow)}
        ELSE RankRuns(g.g, cosines, s4)

\* Every way one click on "Analyze Grant" can go for the table df, the
\* results scrape can have for the typed url and the cosines the embedding
\* service can yield: the outcome, the steps taken, the new row.
AnalyzeRuns(df, scraped, cosines, now) ==
    {Failed(r, <<"chat search">>) : r \in CallResults \ {"value"}}
    \cup UNION {ScrapedRuns(df, g, cosines, now) : g \in scraped}

\* No result of scrape: it was not called, or its chat call gave no reply
NotScraped == [r |-> "none", g |-> PyNone]

\* Every way one click can go, each with what scrape returned in it
Reports(df, scraped, cosines, now) ==
    UNION { { [run |-> run,
               cand |-> IF run.steps = <<"chat search">> THEN NotScraped ELSE g] :
              run \in AnalyzeRuns(df, {g}, cosines, now) } : g \in scraped }

\* A handler that appends the new row and does not sort
TablesAfter_NoSort(df, run) ==
    IF run.outcome = "added" THEN {Append(df, run.row)} ELSE {df}

\* What st.session_state.tbl can be after the handler (analyzer.py 133-134)
TablesAfter(df, run) ==
    IF run.outcome = "added"
    THEN LET all == Append(df, run.row)
         IN  sort_values(all, [i \in 1..Len(all) |-> all[i].Match.n])
    ELSE {df}

\* A handler that keeps the table in memory and never writes it back
FileAfter_NoSave(file, df, run) == file

\* A handler whose save stands outside the branch that adds the row
FileAfter_Always(file, df, run) == save_history(df)

\* grants_history.csv after the handler (analyzer.py 135)
FileAfter(file, df, run) ==
    IF run.outcome = "added" THEN save_history(df) ELSE file

(***************************************************************************)
(* Inputs of the analyzer                                                   *)
(***************************************************************************)
TitleA       == <<"Y","o","u","t","h"," ","F","u","n","d">>
TitleALower  == <<"y","o","u","t","h"," ","f","u","n","d">>
TitleASpaced == <<"Y","o","u","t","h"," "," ","F","u","n","d">>
TitleB       == <<"S","T","E","M">>

DRolling == <<"R","o","l","l","i","n","g">>
DFuture  == <<"2","0","9","9","-","0","1","-","0","1">>
DPast    == <<"2","0","0","0","-","0","1","-","0","1">>

RECURSIVE Members(_)
Members(m) ==
    IF m = <<>> THEN <<>>
    ELSE <<Key(m[1][1]), Lit(m[1][2])>>
         \o (IF Len(m) > 1 THEN <<Comma>> \o Members(Tail(m)) ELSE <<>>)

\* The lexemes of a JSON object with scalar members
ObjToks(m) == <<LBrace>> \o Members(m) \o <<RBrace>>

\* A reply that names every key the prompt asks for
Grant(title, deadline) ==
    ObjToks(<< <<"title", title>>, <<"sponsor", Str(<<"A","C","M","E">>)>>,
               <<"amount", Str(<<"$","5","k">>)>>, <<"deadline", deadline>>,
               <<"summary", Str(<<"s">>)>> >>)

SampleReplies ==
    { Grant(Str(TitleA), Str(DRolling)),
      <<Prose>> \o Grant(Str(TitleALower), Str(DFuture)) \o <<Prose>>,
      <<Fence>> \o Grant(Str(TitleASpaced), Str(DRolling)) \o <<Close>>,
      <<LBrack>> \o Grant(Str(TitleB), Str(DFuture)) \o <<RBrack>>,
      ObjToks(<< <<"title", Str(TitleB)>>, <<"deadline", Str(DRolling)>> >>),
      Grant(Str(TitleB), Str(DPast)),
      Grant(Str(TitleB), PyNone),
      Grant(PyNone, Str(DRolling)),
      <<Prose>>,
      <<LBrace, Key("title"), Lit(Str(TitleB)), Comma, Key("meta"),
        LBrace, RBrace, RBrace>> }

UrlInputs == { <<"a",".","o","r","g">>, <<" ","A",".","o","r","g"," ">>,
               <<"b",".","o","r","g">>, <<" ">> }

\* cosine_similarity(...)[0][0] * 100, in hundredths of a percent
Cosines == {-2000, 4996, 9000}

Todays == { <<2025, 6, 15>> }

\* What scrape(url.strip()) can return, over the typed urls and the replies:
\* the pairs of a url and a result
Scraped == {<<url, scrape(Strip(url), reply)>> : url \in UrlInputs, reply \in SampleReplies}

(***************************************************************************)
(* The analyzer: one session of the dashboard and the file on disk          *)
(***************************************************************************)
NoSession == [set |-> FALSE, rows |-> <<>>]

NotExtracted == [fn |-> "none", r |-> "none", g |-> PyNone]

\* cand: what scrape returned to the handler, for an Analyze
Did(kind, outcome, steps, wrote) ==
    [kind |-> kind, outcome |-> outcome, steps |-> steps, wrote |-> wrote,
     cand |-> NotScraped]

Idle == Did("none", "none", <<>>, FALSE)

\* No prompt loop and no batch running
NoFetch == [fn |-> "none", st |-> "none", round |-> 0, raws |-> <<>>, got |-> <<>>,
            spent |-> FALSE, res |-> PyNone, calls |-> <<>>]

NoBatch == [fn |-> "none", st |-> "none", at |-> "none", cands |-> <<>>,
            mission |-> "none", embs |-> <<>>, i |-> 0, rows |-> <<>>,
            shown |-> NoSession, before |-> NoSession, success |-> FALSE]

NoLoop == [loop |-> "none", st |-> "none", i |-> 0, outs |-> <<>>, slept |-> <<>>,
           res |-> "none"]

OtherVarsIdle ==
    /\ rt = NoLoop
    /\ dlIn = PyNone /\ dlOut = "none"
    /\ raw = <<>> /\ exOut = NotExtracted

Init ==
    /\ csv = NoFile
    /\ tbl = NoSession /\ peer = NoSession
    /\ last = Idle
    /\ today \in Todays
    /\ OtherVarsIdle
    /\ fg = NoFetch /\ bat = NoBatch

\* The first run of the script in a new browser session (analyzer.py 88):
\* session_state is empty, the table is loaded from the file.
StartSession ==
    /\ tbl' = [set |-> TRUE, rows |-> load_history(csv)]
    /\ last' = Did("start", "loaded", <<>>, FALSE)
    /\ UNCHANGED <<peer, csv, today, rt, dlIn, dlOut, raw, exOut, fg, bat>>

\* A click on "Analyze Grant" with a non-blank url (analyzer.py 96-139),
\* over the pairs of a typed url and what scrape answers, and the cosines
AnalyzeOn(scraped, cosines) ==
    /\ tbl.set
    /\ \E url \in {p[1] : p \in scraped} :
          /\ Strip(url) # <<>>
          /\ \E o \in Reports(tbl.rows, {p[2] : p \in {q \in scraped : q[1] = url}},
                               cosines, today) :
                /\ \E t \in TablesAfter(tbl.rows, o.run) : tbl' = [tbl EXCEPT !.rows = t]
                /\ csv' = FileAfter(csv, tbl'.rows, o.run)
                /\ last' = [Did("analyze", o.run.outcome, o.run.steps,
                                last.wrote \/ o.run.outcome = "added")
                               EXCEPT !.cand = o.cand]
    /\ UNCHANGED <<peer, today, rt, dlIn, dlOut, raw, exOut, fg, bat>>

Analyze == AnalyzeOn(Scraped, Cosines)

\* A click on "Clear table" (analyzer.py 155-161)
Clear ==
    /\ tbl.set
    /\ tbl' = [tbl EXCEPT !.rows = <<>>]
    /\ csv' = save_history(tbl'.rows)
    /\ last' = Did("clear", "cleared", <<"save", "rerun">>, TRUE)
    /\ UNCHANGED <<peer, today, rt, dlIn, dlOut, raw, exOut, fg, bat>>

Next == StartSession \/ Analyze \/ Clear

Spec == Init /\ [][Next]_vars

(***************************************************************************)
(* Two browser sessions of the analyzer and the one file on disk.  The      *)
(* script of a session runs to its end before that of another starts; tbl  *)
(* is the table of the session whose script runs next, peer that of the     *)
(* other one.                                                               *)
(***************************************************************************)
SharedScraped ==
    {<<url, scrape(Strip(url), reply)>> :
        url \in { <<"a",".","o","r","g">>, <<"b",".","o","r","g">> },
        reply \in { Grant(Str(TitleA), Str(DRolling)),
                    <<LBrack>> \o Grant(Str(TitleB), Str(DFuture)) \o <<RBrack>>,
                    <<Prose>> }}

SharedCosines == {4996, 9000}

AnalyzeShared == AnalyzeOn(SharedScraped, SharedCosines)

\* The next click comes from the other session
OtherSession ==
    /\ tbl' = peer /\ peer' = tbl
    /\ last' = Did("switch", "none", <<>>, last.wrote)
    /\ UNCHANGED <<csv, today, rt, dlIn, dlOut, raw, exOut, fg, bat>>

NextShared == StartSession \/ AnalyzeShared \/ Clear \/ OtherSession

SpecShared == Init /\ [][NextShared]_vars

(***************************************************************************)
(* A retry loop, attempt by attempt                                         *)
(***************************************************************************)
InitRetry ==
    /\ csv = NoFile /\ tbl = NoSession /\ peer = NoSession /\ last = Idle
    /\ today \in Todays
    /\ rt \in {RetryStart(l) : l \in Loops}
    /\ dlIn = PyNone /\ dlOut = "none"
    /\ raw = <<>> /\ exOut = NotExtracted
    /\ fg = NoFetch /\ bat = NoBatch

\* The call inside try, with whatever the service answers
Attempt ==
    /\ rt.st = "Attempting"
    /\ \E out \in Outcomes(rt.loop) : rt' = AttemptStep(rt, out)
    /\ UNCHANGED <<peer, csv, tbl, last, today, dlIn, dlOut, raw, exOut, fg, bat>>

\* The sleep of the except block
Backoff ==
    /\ rt.st = "BackingOff"
    /\ rt' = SleepStep(rt)
    /\ UNCHANGED <<peer, csv, tbl, last, today, dlIn, dlOut, raw, exOut, fg, bat>>

NextRetry == Attempt \/ Backoff

SpecRetry == InitRetry /\ [][NextRetry]_vars

(***************************************************************************)
(* The calls of a service that stand in no loop                            *)
(***************************************************************************)
\* The Why Fit call of rank_table (test.py 98-103) and the request of
\* fetch_grants to Grants.gov (grant_capstone.py 44-45)
DirectSites == {"test.rank_table", "capstone.fetch_grants"}

\* What the call can end in; a 429 of the registry is the HTTPError of
\* raise_for_status
DirectOutcomes(site) ==
    IF site = "test.rank_table" THEN {"ok", "RateLimitError", "APIError"}
    ELSE {"ok", "HTTPError 429", "ConnectionError"}

InitCall ==
    /\ csv = NoFile /\ tbl = NoSession /\ peer = NoSession /\ last = Idle
    /\ today \in Todays
    /\ rt \in {RetryStart(l) : l \in Loops}
              \cup {[RetryStart(site) EXCEPT !.st = "Calling"] : site \in DirectSites}
    /\ dlIn = PyNone /\ dlOut = "none"
    /\ raw = <<>> /\ exOut = NotExtracted
    /\ fg = NoFetch /\ bat = NoBatch

\* The one call of a direct site: its value, or its exception to the caller
DirectCall ==
    /\ rt.st = "Calling"
    /\ \E out \in DirectOutcomes(rt.loop) :
          rt' = [rt EXCEPT !.outs = <<out>>,
                           !.st = IF out = "ok" THEN "Returned" ELSE "Raised",
                           !.res = IF out = "ok" THEN "value" ELSE out]
    /\ UNCHANGED <<peer, csv, tbl, last, today, dlIn, dlOut, raw, exOut, fg, bat>>

NextCall == Attempt \/ Backoff \/ DirectCall

SpecCall == InitCall /\ [][NextCall]_vars

(***************************************************************************)
(* deadline_ok on the values it can be handed                               *)
(***************************************************************************)
TwoDigits(n) == <<Digits[(n \div 10) + 1], Digits[(n % 10) + 1]>>

\* "YYYY-MM-DD" for the numbers given, whether they name a day or not
DateText(y, m, d) == NatText(y) \o <<"-">> \o TwoDigits(m) \o <<"-">> \o TwoDigits(d)

\* The deadline fields of the records scrape returns for the sample replies
ScrapedDeadlines ==
    {scrape(<<"u">>, r).g.deadline :
        r \in {q \in SampleReplies : scrape(<<"u">>, q).r = "ok"}}

DeadlineTexts ==
    { Rolling, <<"R","O","L","L","I","N","G">>, <<" ","r","o","l","l","i","n","g">>,
      <<"N","/","A">>, <<>>,
      <<"n","o","t"," ","a"," ","d","a","t","e">>,
      DFuture \o <<"T","0","0",":","0","0">>,
      <<"2","0","9","9","-","1","-","1">>,
      <<"2","0","9","9","-","1","2","-"," ","1">>,
      <<"2","0","9","9","/","0","1","/","0","1">>,
      <<"0","0","0","0","-","0","1","-","0","1">>,
      <<"0","1","/","0","1","/","2","0","9","9">> }

DeadlineInputs ==
    ScrapedDeadlines
    \cup {Str(s) : s \in DeadlineTexts}
    \cup {Str(DateText(y, m, d)) : y \in {2024, 2025, 2026}, m \in 0..13, d \in 0..32}
    \cup {Num(2099), PyNone}

DeadlineTodays == { <<2025, 6, 15>>, <<2024, 2, 29>>, <<2025, 12, 31>> }

InitDeadline ==
    /\ csv = NoFile /\ tbl = NoSession /\ peer = NoSession /\ last = Idle
    /\ today \in DeadlineTodays
    /\ rt = NoLoop
    /\ dlIn \in DeadlineInputs /\ dlOut = "none"
    /\ raw = <<>> /\ exOut = NotExtracted
    /\ fg = NoFetch /\ bat = NoBatch

CheckDeadline ==
    /\ dlOut = "none"
    /\ dlOut' = deadline_ok(dlIn, today)
    /\ UNCHANGED <<peer, csv, tbl, last, today, rt, dlIn, raw, exOut, fg, bat>>

NextDeadline == CheckDeadline

SpecDeadline == InitDeadline /\ [][NextDeadline]_vars

(***************************************************************************)
(* The extractors of the generative adapters                                *)
(***************************************************************************)
NUM_ROWS == 10    \* test.py
NUM      == 15    \* grant_app_final.py

\* {k: d.get(k, "N/A") for k in (...)} of test.py 73-74, as a Dict
Cleaned(d) == Dict([i \in 1..6 |-> <<CanonKeys[i], DictGet(d, CanonKeys[i], NA)>>])

\* One round of fetch_grants of test.py from the reply on (65-74): the list
\* of cleaned records, or "raise" when an exception leaves the function:
\* json.loads on the salvaged span, iteration over a value that cannot be
\* iterated, .get on an element that is no dict (a key of a dict, a
\* character of a string, any other element of a list).
CleanRound(reply) ==
    LET whole == json_loads(reply)
        m     == GreedyArraySpan(reply)
        part  == json_loads(m)
        bad   == ~whole.ok /\ m # NoMatch /\ ~part.ok
        data  == IF whole.ok THEN whole.v
                 ELSE IF m = NoMatch THEN List(<<>>) ELSE part.v
    IN  IF bad THEN Result("raise", PyNone)
        ELSE IF data.t = "list" THEN
            IF \A i \in 1..Len(data.e) : data.e[i].t = "dict"
            THEN Result("ok", List([i \in 1..Len(data.e) |-> Cleaned(data.e[i])]))
            ELSE Result("raise", PyNone)
        ELSE IF data.t = "dict" /\ data.m = <<>> THEN Result("ok", List(<<>>))
        ELSE IF data.t = "str" /\ data.s = <<>> THEN Result("ok", List(<<>>))
        ELSE Result("raise", PyNone)

\* fetch_grants of grant_app_final.py from the reply on (61-70): data[:NUM],
\* or "raise" when data is a value that cannot be sliced.
ParseArray(reply) ==
    LET whole == json_loads(reply)
        m     == GreedyArraySpan(reply)
        part  == json_loads(m)
        data  == IF whole.ok THEN whole.v
                 ELSE IF m # NoMatch /\ part.ok THEN part.v
                 ELSE List(<<>>)
    IN  IF data.t = "list" THEN Result("ok", List(Take(data.e, NUM)))
        ELSE IF data.t = "str" THEN Result("ok", Str(Take(data.s, NUM)))
        ELSE Result("raise", PyNone)

MaxReplyLen == 4

Alphabet == {LBrace, RBrace, LBrack, RBrack, Comma, Fence, Close, Prose,
             Key("title"), Lit(Str(TitleB)), Lit(PyNone)}

\* Every reply of at most MaxReplyLen lexemes, and the longer samples
Replies == UNION {[1..n -> Alphabet] : n \in 0..MaxReplyLen} \cup SampleReplies

Extracted(fn, res) == [fn |-> fn, r |-> res.r, g |-> res.g]

InitExtract ==
    /\ csv = NoFile /\ tbl = NoSession /\ peer = NoSession /\ last = Idle
    /\ today \in Todays
    /\ rt = NoLoop
    /\ dlIn = PyNone /\ dlOut = "none"
    /\ raw \in Replies /\ exOut = NotExtracted
    /\ fg = NoFetch /\ bat = NoBatch

\* scrape of analyzer.py on the reply
Scrape ==
    /\ exOut = NotExtracted
    /\ exOut' = Extracted("scrape", scrape(<<"a",".","o","r","g">>, raw))
    /\ UNCHANGED <<peer, csv, tbl, last, today, rt, dlIn, dlOut, raw, fg, bat>>

\* a round of fetch_grants of test.py on the reply
FetchRound ==
    /\ exOut = NotExtracted
    /\ exOut' = Extracted("test.fetch_grants", CleanRound(raw))
    /\ UNCHANGED <<peer, csv, tbl, last, today, rt, dlIn, dlOut, raw, fg, bat>>

\* fetch_grants of grant_app_final.py on the reply
FetchArray ==
    /\ exOut = NotExtracted
    /\ exOut' = Extracted("final.fetch_grants", ParseArray(raw))
    /\ UNCHANGED <<peer, csv, tbl, last, today, rt, dlIn, dlOut, raw, fg, bat>>

NextExtract == Scrape \/ FetchRound \/ FetchArray

SpecExtract == InitExtract /\ [][NextExtract]_vars

(***************************************************************************)
(* Source adapters: the prompt loops of test.py and grant_app_Xfinal.py     *)
(***************************************************************************)
PROMPT_TRY     == 4    \* test.py
PROMPT_RETRIES == 3    \* grant_app_Xfinal.py

Adapters == {"test.fetch_grants", "xfinal.get_grants_json"}

\* range(PROMPT_TRY), range(PROMPT_RETRIES)
Budget(fn) == IF fn = "test.fetch_grants" THEN PROMPT_TRY ELSE PROMPT_RETRIES

\* The lexemes of n objects, with commas between them
RECURSIVE Objects(_, _)
Objects(n, title) ==
    IF n = 0 THEN <<>>
    ELSE Grant(Str(title), Str(DFuture))
         \o (IF n > 1 THEN <<Comma>> \o Objects(n - 1, title) ELSE <<>>)

\* A reply that is a JSON array of n grants
ArrayReply(n, title) == <<LBrack>> \o Objects(n, title) \o <<RBrack>>

\* What the chat model can answer to the prompt for a list of grants: the
\* full list, one element more, a short list, an empty one, a list inside
\* prose, prose only, a bracket span that is no JSON, one object.
FetchReplies ==
    { ArrayReply(NUM_ROWS, TitleA), ArrayReply(NUM_ROWS + 1, TitleB),
      ArrayReply(2, TitleA), ArrayReply(0, TitleA),
      <<Prose>> \o ArrayReply(1, TitleB) \o <<Prose>>,
      <<Prose>>, <<LBrack, Prose, RBrack>>,
      Grant(Str(TitleB), Str(DRolling)) }

\* The round of test.py on each reply: the pairs of a reply and its result
Rounds == {<<reply, CleanRound(reply)>> : reply \in FetchReplies}

RoundOf(reply) == (CHOOSE p \in Rounds : p[1] = reply)[2]

\* try: return json.loads(raw) / except JSONDecodeError: the first [...]
\* block, try: return json.loads(match.group()) / except Exception: pass
\* (grant_app_Xfinal.py 72-81): the value returned, or no return
JsonOrBlock(reply) ==
    LET whole == json_loads(reply)
        m     == GreedyArraySpan(reply)
        part  == json_loads(m)
    IN  IF whole.ok THEN Result("ok", whole.v)
        ELSE IF m # NoMatch /\ part.ok THEN Result("ok", part.v)
        ELSE Result("none", PyNone)

\* The parse of grant_app_Xfinal.py on each reply, as pairs
Parses == {<<reply, JsonOrBlock(reply)>> : reply \in FetchReplies}

\* An adapter about to ask for the first time.  round: the iterations
\* begun; raws: the replies received; got: the records of the last reply;
\* spent: the for loop ran out; res: the value returned; calls: the calls
\* ask_chat made to the service in each iteration of fetch_grants.
FetchStart(fn) ==
    [fn |-> fn, st |-> "Asking", round |-> 0, raws |-> <<>>, got |-> <<>>,
     spent |-> FALSE, res |-> PyNone, calls |-> <<>>]

\* A loop that has no last iteration (while True for range(PROMPT_TRY))
AfterRound_Stop_NoBudget(f) == f

\* An iteration that returned nothing: the next one, or the statements
\* after the loop (test.py 80: st.error; st.stop())
AfterRound_Stop(f) ==
    IF f.round < Budget(f.fn) THEN f
    ELSE [f EXCEPT !.st = "Stopped", !.spent = TRUE]

\* An iteration that returned nothing: the next one, or the statements
\* after the loop (grant_app_Xfinal.py 84: return [])
AfterRound_Return(f) ==
    IF f.round < Budget(f.fn) THEN f
    ELSE [f EXCEPT !.st = "Returned", !.spent = TRUE, !.res = List(<<>>)]

\* The call of the chat wrapper that ended without a value (test.py 64,
\* grant_app_Xfinal.py 69)
ChatFailed(f, c) ==
    [f EXCEPT !.round = @ + 1, !.st = IF c = "st.stop" THEN "Stopped" ELSE "Raised"]

\* One iteration of the loop of fetch_grants (test.py 63-79) on a reply
PromptRoundOn(f, reply) ==
    LET f1 == [f EXCEPT !.round = @ + 1, !.raws = Append(@, reply)]
        r  == RoundOf(reply)
    IN  IF r.r = "raise" THEN [f1 EXCEPT !.st = "Raised", !.got = <<>>]
        ELSE IF Len(r.g.e) >= NUM_ROWS
             THEN [f1 EXCEPT !.st = "Returned", !.got = r.g.e,
                             !.res = List(Take(r.g.e, NUM_ROWS))]
             ELSE AfterRound_Stop([f1 EXCEPT !.got = r.g.e])

\* One iteration of the loop of get_grants_json (grant_app_Xfinal.py 55-83)
JsonRoundOn(f, reply) ==
    LET f1 == [f EXCEPT !.round = @ + 1, !.raws = Append(@, reply)]
        r  == (CHOOSE p \in Parses : p[1] = reply)[2]
    IN  IF r.r = "ok"
        THEN [f1 EXCEPT !.st = "Returned", !.res = r.g,
                        !.got = IF r.g.t = "list" THEN r.g.e ELSE <<>>]
        ELSE AfterRound_Return([f1 EXCEPT !.got = <<>>])

\* How one call of ask_chat can go (test.py 28-41): what it ends in and the
\* calls it made to the service, over every run of outcomes of the service
AskChatRuns ==
    {[res |-> r.res, calls |-> Len(r.outs)] :
        r \in {RunLoop(RetryStart("test.ask_chat"), o) :
                  o \in [1..MAX_RETRY -> Outcomes("test.ask_chat")]}}

InitFetch ==
    /\ csv = NoFile /\ tbl = NoSession /\ peer = NoSession /\ last = Idle
    /\ today \in Todays
    /\ OtherVarsIdle
    /\ fg \in {FetchStart(fn) : fn \in Adapters}
    /\ bat = NoBatch

\* an iteration of fetch_grants of test.py, with its call of ask_chat
PromptRound ==
    /\ fg.fn = "test.fetch_grants" /\ fg.st = "Asking"
    /\ \E c \in AskChatRuns :
          LET f == [fg EXCEPT !.calls = Append(@, c.calls)]
          IN  IF c.res = "value"
              THEN \E reply \in FetchReplies : fg' = PromptRoundOn(f, reply)
              ELSE fg' = ChatFailed(f, c.res)
    /\ UNCHANGED <<peer, csv, tbl, last, today, rt, dlIn, dlOut, raw, exOut, bat>>

\* an iteration of get_grants_json, with its call of openai_chat
JsonRound ==
    /\ fg.fn = "xfinal.get_grants_json" /\ fg.st = "Asking"
    /\ \E c \in CallResults :
          IF c = "value"
          THEN \E reply \in FetchReplies : fg' = JsonRoundOn(fg, reply)
          ELSE fg' = ChatFailed(fg, c)
    /\ UNCHANGED <<peer, csv, tbl, last, today, rt, dlIn, dlOut, raw, exOut, bat>>

NextFetch == PromptRound \/ JsonRound

SpecFetch == InitFetch /\ [][NextFetch]_vars

\* The script runs on until the adapter has returned, stopped or raised
SpecFetchLive == SpecFetch /\ WF_vars(NextFetch)

(***************************************************************************)
(* Ranking batches: process_grants (app.py), rank_table (test.py,           *)
(* grant_database_final.py), analyse (grant_app_final.py,                   *)
(* grant_app_Xfinal.py)                                                     *)
(***************************************************************************)
SHOW_TOP == 15    \* grant_database_final.py
TOP_N    == 8     \* grant_app_Xfinal.py

BatchFns == {"app.process_grants", "test.rank_table", "final.analyse",
             "xfinal.analyse", "dbfinal.rank_table"}

\* The functions that rank the rows of Grants.gov and number them: rank_table
\* of grant_database_final.py and this_grant.py, rank_grants of
\* grant_capstone.py
RankFns == {"dbfinal.rank_table", "capstone.rank_grants", "this_grant.rank_table"}

\* empty: what an input without rows leads to; fail: what the embedding
\* wrapper does when its loop runs out; round: the score is
\* (cosine * 100).round(1), not the cosine; top: the argument of head(), 0
\* for no head(); annot: the rationale call of the second loop.
BatchCfg(fn) ==
    CASE fn = "app.process_grants" ->
           [empty |-> "raise", fail |-> "dummy", round |-> FALSE, top |-> 15,
            annot |-> "gpt_brief"]
      [] fn = "test.rank_table" ->
           [empty |-> "raise", fail |-> "st.stop", round |-> TRUE, top |-> 0,
            annot |-> "direct"]
      [] fn = "final.analyse" ->
           [empty |-> "return", fail |-> "dummy", round |-> FALSE, top |-> 0,
            annot |-> "try chat"]
      [] fn = "xfinal.analyse" ->
           [empty |-> "return", fail |-> "dummy", round |-> FALSE, top |-> TOP_N,
            annot |-> "try chat"]
      [] fn \in RankFns ->
           [empty |-> "return", fail |-> "st.stop", round |-> TRUE, top |-> SHOW_TOP,
            annot |-> "none"]

\* How the service answers one wrapped call, over the whole of its retry
\* loop: a value, rate-limit errors as long as the loop lasts, another API
\* error, and for a chat call a reply that is no JSON.
EmbedOuts == {"ok", "RateLimitError", "APIError"}
ChatOuts  == {"ok", "RateLimitError", "APIError", "unparseable"}

\* The column the batch sorts by, from the cosine in ten-thousandths; the
\* cosine with the vector of zeros is 0.
Score(fn, cosine, vecOk) ==
    LET c == IF vecOk THEN cosine ELSE 0
    IN  IF BatchCfg(fn).round THEN Round1(c) ELSE c

\* A function that shows every row (no .head)
head_All(rows, n) == rows

\* .head(n)
head(rows, n) == IF n = 0 THEN rows ELSE Take(rows, n)

\* What the rationale call leaves in the row: the model's answer, a
\* placeholder, or no row at all because the exception or st.stop() leaves
\* the function.
Annotated(fn, out) ==
    LET a == BatchCfg(fn).annot
    IN  CASE a = "gpt_brief" ->
               IF out = "ok" THEN [end |-> "row", feas |-> "High", why |-> "answer"]
               ELSE IF out = "APIError" THEN [end |-> "Raised", feas |-> "", why |-> ""]
               ELSE [end |-> "row", feas |-> "Unknown", why |-> "placeholder"]
          [] a = "direct" ->
               IF out \in {"ok", "unparseable"}
               THEN [end |-> "row", feas |-> "", why |-> "answer"]
               ELSE [end |-> "Raised", feas |-> "", why |-> ""]
          [] a = "try chat" ->
               IF out = "ok" THEN [end |-> "row", feas |-> "High", why |-> "answer"]
               ELSE IF out = "RateLimitError"
                    THEN [end |-> "Stopped", feas |-> "", why |-> ""]
               ELSE [end |-> "row", feas |-> "?", why |-> "placeholder"]
          [] OTHER -> [end |-> "row", feas |-> "", why |-> ""]

\* st.session_state's table after an earlier click published one row
PrevTable(fn) ==
    [set |-> TRUE,
     rows |-> << [id |-> 1, score |-> Score(fn, 9000, TRUE), ok |-> TRUE,
                  feas |-> Annotated(fn, "ok").feas, why |-> Annotated(fn, "ok").why,
                  aout |-> IF BatchCfg(fn).annot = "none" THEN "" ELSE "ok",
                  Rank |-> IF fn \in RankFns THEN 1 ELSE 0] >>]

\* A session before the click.  cands: the cosine of every candidate, in
\* the order of arrival; mission: how the embedding of the mission ended;
\* embs: how the embedding of each candidate ended; rows: the table under
\* construction; shown: st.session_state's table; before: the same at the
\* click; success: st.success was reached.
BatchStart(fn, shown) ==
    [fn |-> fn, st |-> "Ready", at |-> "none", cands |-> <<>>, mission |-> "none",
     embs |-> <<>>, i |-> 0, rows |-> <<>>, shown |-> shown, before |-> shown,
     success |-> FALSE]

\* session_state's table is assigned and st.success is reached
Publish(b, rows) ==
    [b EXCEPT !.st = "Published", !.rows = rows,
              !.shown = [set |-> TRUE, rows |-> rows], !.success = TRUE]

\* The rows after the first loop: scored, sorted, cut, and in the ranking
\* functions numbered from 1 in the column Rank (0: no such column); then
\* the second loop or, without rows or without a second loop, the end of
\* the function.
Ranked(b, sorted) ==
    LET top  == head(sorted, BatchCfg(b.fn).top)
        rows == IF b.fn \in RankFns
                THEN [i \in 1..Len(top) |-> [top[i] EXCEPT !.Rank = i]]
                ELSE top
    IN  IF BatchCfg(b.fn).annot = "none" \/ rows = <<>>
        THEN Publish(b, rows)
        ELSE [b EXCEPT !.st = "Running", !.at = "annotate", !.i = 1, !.rows = rows]

Scored(b) ==
    [i \in 1..Len(b.cands) |->
        [id |-> i,
         score |-> Score(b.fn, b.cands[i], b.embs[i] = "ok" /\ b.mission = "ok"),
         ok |-> b.embs[i] = "ok", feas |-> "", why |-> "", aout |-> "", Rank |-> 0]]

\* The end of an embedding call that gave no vector to go on with
EmbedEnd(b, out) ==
    IF out = "APIError" THEN "Raised"
    ELSE IF out = "RateLimitError" /\ BatchCfg(b.fn).fail = "st.stop" THEN "Stopped"
    ELSE "Running"

MaxCands == 3

BatchCosines == {-2000, 0, 9000}

\* The summaries the source adapter hands over, by their cosine
CandSeqs == UNION {[1..n -> BatchCosines] : n \in 0..MaxCands}

InitBatch ==
    /\ csv = NoFile /\ tbl = NoSession /\ peer = NoSession /\ last = Idle
    /\ today \in Todays
    /\ OtherVarsIdle
    /\ fg = NoFetch
    /\ bat \in {BatchStart(fn, sh) : fn \in BatchFns, sh \in {NoSession}}
               \cup {BatchStart(fn, PrevTable(fn)) : fn \in BatchFns}

\* The click on the button, up to the first call of the embedding wrapper
\* (an input without rows ends the function where it checks for that)
Click ==
    /\ bat.st = "Ready" /\ bat.fn \in BatchFns
    /\ \E c \in CandSeqs :
          LET b == [bat EXCEPT !.cands = c]
          IN  bat' = IF c = <<>> /\ BatchCfg(bat.fn).empty = "return"
                     THEN Publish(b, <<>>)
                     ELSE [b EXCEPT !.st = "Running", !.at = "mission"]
    /\ UNCHANGED <<peer, csv, tbl, last, today, rt, dlIn, dlOut, raw, exOut, fg>>

\* The embedding of the mission, up to the next call (the column of an
\* input without columns is an error)
EmbedMission ==
    /\ bat.st = "Running" /\ bat.at = "mission"
    /\ \E out \in EmbedOuts :
          LET b == [bat EXCEPT !.mission = out]
          IN  bat' = IF EmbedEnd(b, out) # "Running"
                     THEN [b EXCEPT !.st = EmbedEnd(b, out)]
                     ELSE IF b.cands = <<>> THEN [b EXCEPT !.st = "Raised"]
                     ELSE [b EXCEPT !.at = "embed", !.i = 1]
    /\ UNCHANGED <<peer, csv, tbl, last, today, rt, dlIn, dlOut, raw, exOut, fg>>

\* The embedding of the summary of candidate i, up to the next call; after
\* the last candidate the sort and the cut
EmbedOne ==
    /\ bat.st = "Running" /\ bat.at = "embed"
    /\ \E out \in EmbedOuts :
          LET b == [bat EXCEPT !.embs = Append(@, out)]
          IN  IF EmbedEnd(b, out) # "Running"
              THEN bat' = [b EXCEPT !.st = EmbedEnd(b, out)]
              ELSE IF b.i < Len(b.cands) THEN bat' = [b EXCEPT !.i = @ + 1]
              ELSE \E sorted \in sort_values(Scored(b),
                                               [k \in 1..Len(b.cands) |-> Scored(b)[k].score]) :
                      bat' = Ranked(b, sorted)
    /\ UNCHANGED <<peer, csv, tbl, last, today, rt, dlIn, dlOut, raw, exOut, fg>>

\* The rationale call for row i, up to the next call; after the last row
\* the table is published
AnnotateOne ==
    /\ bat.st = "Running" /\ bat.at = "annotate"
    /\ \E out \in ChatOuts :
          LET a    == Annotated(bat.fn, out)
              rows == [bat.rows EXCEPT ![bat.i] =
                          [@ EXCEPT !.feas = a.feas, !.why = a.why, !.aout = out]]
          IN  bat' = IF a.end # "row" THEN [bat EXCEPT !.st = a.end]
                     ELSE IF bat.i < Len(bat.rows)
                          THEN [bat EXCEPT !.rows = rows, !.i = @ + 1]
                     ELSE Publish(bat, rows)
    /\ UNCHANGED <<peer, csv, tbl, last, today, rt, dlIn, dlOut, raw, exOut, fg>>

NextBatch == Click \/ EmbedMission \/ EmbedOne \/ AnnotateOne

SpecBatch == InitBatch /\ [][NextBatch]_vars

(***************************************************************************)
(* The ranking functions on inputs longer than the table they show          *)
(***************************************************************************)
MaxRanked == 17

\* The cosines of n summaries in the order of arrival: rising, falling,
\* alternating about 0, and equal in pairs
RankInputs ==
    UNION { { [i \in 1..n |-> 100 * i], [i \in 1..n |-> 0 - 100 * i],
              [i \in 1..n |-> IF i % 2 = 0 THEN 100 * i ELSE 0 - 100 * i],
              [i \in 1..n |-> 100 * (i \div 2)] } : n \in 0..MaxRanked }

InitRank ==
    /\ csv = NoFile /\ tbl = NoSession /\ peer = NoSession /\ last = Idle
    /\ today \in Todays
    /\ OtherVarsIdle
    /\ fg = NoFetch
    /\ bat \in {BatchStart(fn, NoSession) : fn \in RankFns}

\* The click on "Fetch & Rank 15 Grants" with the rows fetch_grants returned
ClickRank ==
    /\ bat.st = "Ready" /\ bat.fn \in RankFns
    /\ \E c \in RankInputs :
          LET b == [bat EXCEPT !.cands = c]
          IN  bat' = IF c = <<>> THEN Publish(b, <<>>)
                     ELSE [b EXCEPT !.st = "Running", !.at = "mission"]
    /\ UNCHANGED <<peer, csv, tbl, last, today, rt, dlIn, dlOut, raw, exOut, fg>>

NextRank == ClickRank \/ EmbedMission \/ EmbedOne

SpecRank == InitRank /\ [][NextRank]_vars

(***************************************************************************)
(* Properties                                                               *)
(***************************************************************************)
IndexOf(seq, x) == IF \E i \in 1..Len(seq) : seq[i] = x
                   THEN Min({i \in 1..Len(seq) : seq[i] = x}) ELSE 0

\* C1: write-through persistence.  Once the session has changed its table
\* (a row added, the table cleared), the file holds exactly the rows of the
\* table in memory at the end of every action, and before that the table is
\* what the file holds; an action that reports success has saved before.
C1_WriteThrough ==
    tbl.set =>
        /\ IF last.wrote
           THEN csv.exists /\ csv.rows = to_csv(tbl.rows)
           ELSE tbl.rows = load_history(csv)
        /\ last.outcome = "added" =>
              /\ IndexOf(last.steps, "save") > IndexOf(last.steps, "concat sort")
              /\ IndexOf(last.steps, "success") > IndexOf(last.steps, "save")
              /\ IndexOf(last.steps, "concat sort") > 0

C1_Witness ==
    /\ last.kind = "analyze" /\ last.outcome = "added"
    /\ Len(tbl.rows) = 2
    /\ csv.rows = to_csv(tbl.rows)

\* Text with every run of white space as one blank, and none at the ends
RECURSIVE Squeeze(_)
Squeeze(s) ==
    IF s = <<>> THEN <<>>
    ELSE IF IsSpace(s[1])
         THEN (IF Len(s) > 1 /\ IsSpace(s[2]) THEN Squeeze(Tail(s))
               ELSE <<" ">> \o Squeeze(Tail(s)))
         ELSE <<s[1]>> \o Squeeze(Tail(s))

NormTitle(s) == Lower(Strip(Squeeze(s)))

\* C2: no two rows of the table share a title that is equal after case
\* folding and white-space normalization, nor a URL equal after case folding.
C2_Unique ==
    \A i, j \in 1..Len(tbl.rows) :
        i < j =>
          /\ (tbl.rows[i].Title.t = "str" /\ tbl.rows[j].Title.t = "str")
                => NormTitle(tbl.rows[i].Title.s) # NormTitle(tbl.rows[j].Title.s)
          /\ (tbl.rows[i].URL.t = "str" /\ tbl.rows[j].URL.t = "str")
                => Lower(tbl.rows[i].URL.s) # Lower(tbl.rows[j].URL.s)

\* C3: an Analyze that ends without adding a row leaves the file and the
\* table in memory as they were.
C3_AbortKeepsState ==
    [][ (last'.kind = "analyze" /\ last'.outcome # "added")
            => (csv' = csv /\ tbl' = tbl) ]_vars

C3_Witness ==
    /\ last.kind = "analyze" /\ last.outcome = "stopped"
    /\ last.steps[Len(last.steps)] = "embed mission"
    /\ tbl.rows # <<>> /\ csv.exists /\ csv.rows # <<>>

\* C4: every retry loop calls the service at most its configured number of
\* times (4 in analyzer.py and grant_capstone.py), a success is the last call
\* and ends the loop, and a finished loop attempts nothing more; in
\* analyzer.py and grant_capstone.py the loop is Exhausted, with st.stop(),
\* exactly after 4 rate-limit errors in a row.
C4_BoundedRetry ==
    /\ Len(rt.outs) <= LoopCfg(rt.loop).max
    /\ \A i \in 1..Len(rt.outs) :
          rt.outs[i] = "ok" => (i = Len(rt.outs) /\ rt.st = "Returned")
    /\ rt.st = "Returned" => rt.outs[Len(rt.outs)] = "ok"
    /\ rt.st \in {"Returned", "Raised", "Exhausted"} =>
          (~ENABLED Attempt /\ ~ENABLED Backoff)
    /\ rt.loop \in {"analyzer.retry", "capstone.embed"} =>
          /\ LoopCfg(rt.loop).max = 4
          /\ rt.st = "Exhausted" <=>
                (/\ Len(rt.outs) = 4
                 /\ \A i \in 1..4 : rt.outs[i] = "RateLimitError"
                 /\ Len(rt.slept) = 4)
          /\ rt.st = "Exhausted" => rt.res = "st.stop"

C4_Witness ==
    /\ rt.loop = "capstone.embed" /\ rt.st = "Exhausted"
    /\ Len(rt.outs) = MAX_RETRIES

\* C5: in every retry loop an error that is no rate-limit error is followed
\* by no sleep and no further attempt: it leaves the loop where it occurred.
C5_NoRetryOfOtherErrors ==
    \A i \in 1..Len(rt.outs) :
        rt.outs[i] \notin {"ok", "RateLimitError"} =>
            /\ i = Len(rt.outs)
            /\ rt.st = "Raised"
            /\ Len(rt.slept) = i - 1

\* The rule of the deadline filter: "rolling" in any case, or a first ten
\* characters that name a day on or after today.
Eligible(dl, now) ==
    /\ dl.t = "str"
    /\ \/ Lower(dl.s) = Rolling
       \/ /\ strptime(Take(dl.s, 10)) # NoDate
          /\ DateGE(strptime(Take(dl.s, 10)), now)

\* C6: deadline_ok returns true exactly for the eligible values, false for
\* every other value it is handed, and never raises.
C6_FailClosed ==
    dlOut # "none" =>
        /\ dlOut \in {"True", "False"}
        /\ dlOut = "True" <=> Eligible(dlIn, today)

\* The band of a stored Match% (in tenths)
Band(x) == IF x >= 750 THEN <<"H","i","g","h">>
           ELSE IF x >= 500 THEN <<"M","e","d","i","u","m">>
           ELSE <<"L","o","w">>

\* C7: the Feasibility of every row is the band of its stored Match%.
C7_Banding ==
    \A i \in 1..Len(tbl.rows) :
        tbl.rows[i].Feasibility = Str(Band(tbl.rows[i].Match.n))

\* C8: every stored Match% lies in [0, 100].
C8_ScoreRange ==
    \A i \in 1..Len(tbl.rows) :
        tbl.rows[i].Match.n >= 0 /\ tbl.rows[i].Match.n <= 1000

\* A reply without any span of lexemes that is a JSON value
NoJsonSpan(reply) ==
    \A i \in 1..Len(reply) : \A j \in i..Len(reply) :
        ~json_loads(SubSeq(reply, i, j)).ok

\* C9: on a reply without a JSON-parseable span every extractor returns its
\* failure value (None, the empty list) and lets no exception escape.
C9_ExtractionSignals ==
    (exOut.r # "none" /\ NoJsonSpan(raw)) =>
        /\ exOut.r # "raise"
        /\ exOut.fn = "scrape" => exOut.r = "None"
        /\ exOut.fn # "scrape" => exOut.g = List(<<>>)

\* C10: a record the extractor returns has every canonical key, and no
\* value of it is null.
C10_NoNull ==
    /\ (exOut.r = "ok" /\ exOut.fn = "scrape") =>
          \A k \in {CanonKeys[i] : i \in 1..6} : exOut.g[k] # PyNone
    /\ (exOut.r = "ok" /\ exOut.fn = "test.fetch_grants") =>
          \A n \in 1..Len(exOut.g.e) : \A i \in 1..6 :
              /\ exOut.g.e[n].m[i][1] = CanonKeys[i]
              /\ exOut.g.e[n].m[i][2] # PyNone

\* C11: an adapter whose prompt loop ran out without the records it asked
\* for returns to its caller the records it has, all of them from the last
\* reply; it does not stop the script and does not raise.
C11_ReturnsWhatItHas ==
    fg.spent =>
        /\ fg.st = "Returned"
        /\ fg.res = List(fg.got)

\* C12: a ranking batch is never ended by a rationale call, whatever its
\* outcome, and in the published table every row whose rationale call
\* failed holds a placeholder.
C12_AnnotationContained ==
    /\ bat.st \in {"Raised", "Stopped"} => bat.at # "annotate"
    /\ bat.st = "Published" =>
          \A i \in 1..Len(bat.rows) :
              bat.rows[i].aout \in {"RateLimitError", "APIError", "unparseable"}
                  => bat.rows[i].why = "placeholder"

\* C13: a candidate whose embedding call failed for the whole retry budget
\* does not end the batch, and in the published table its feasibility is
\* "Unknown" and it stands after every candidate whose embedding succeeded.
C13_EmbedFailureLast ==
    /\ (bat.st \in {"Raised", "Stopped"} /\ bat.at = "embed")
          => bat.embs[Len(bat.embs)] # "RateLimitError"
    /\ bat.st = "Published" =>
          \A i \in 1..Len(bat.rows) :
              ~bat.rows[i].ok =>
                  /\ bat.rows[i].feas = "Unknown"
                  /\ \A j \in 1..Len(bat.rows) : bat.rows[j].ok => j < i

\* C14: a batch all of whose embedding calls were rate-limited for the whole
\* retry budget ends stopped with an error: it reports no success, and the
\* table of the session is the one from before the click.
C14_NoTableFromDummies ==
    ( /\ bat.st \in {"Published", "Stopped", "Raised"}
      /\ bat.mission = "RateLimitError" /\ bat.embs # <<>>
      /\ \A i \in 1..Len(bat.embs) : bat.embs[i] = "RateLimitError" )
    => ( bat.st = "Stopped" /\ ~bat.success /\ bat.shown = bat.before )

\* C17: the published table is in falling order of score, and rows of equal
\* score are in the order in which the candidates arrived.
C17_StableTies ==
    bat.st = "Published" =>
        \A i, j \in 1..Len(bat.rows) :
            i < j =>
              \/ bat.rows[i].score > bat.rows[j].score
              \/ (bat.rows[i].score = bat.rows[j].score /\ bat.rows[i].id < bat.rows[j].id)

\* C15: saving the table of the session and loading the file again gives
\* the same rows, with the same value in every column.
C15_RoundTrip ==
    tbl.set => load_history(save_history(tbl.rows)) = tbl.rows

\* The steps of the handler in which it waits for a service or for the
\* PDF writer
ExternalSteps == {"chat search", "embed summary", "embed mission", "chat short",
                  "chat long", "pdf"}

\* g has the title or the url of a row, by the key of the table
InTable(rows, g) ==
    \E i \in 1..Len(rows) :
        \/ /\ rows[i].Title.t = "str" /\ g.title.t = "str"
           /\ NormTitle(rows[i].Title.s) = NormTitle(g.title.s)
        \/ /\ rows[i].URL.t = "str" /\ g.url.t = "str"
           /\ Lower(rows[i].URL.s) = Lower(g.url.s)

\* C16: an Analyze in which no service call failed adds exactly one row
\* when the candidate was extracted, is eligible by its deadline and is not
\* in the table, and no row otherwise; a candidate it rejects is reported
\* as unparseable, expired or already present, whichever applies.
C16_ExactCounts ==
    [][ (last'.kind = "analyze" /\ tbl.set) =>
          LET g         == last'.cand
              gain      == Len(tbl'.rows) - Len(tbl.rows)
              failed    == \/ last'.outcome = "stopped"
                           \/ /\ last'.outcome = "exception"
                              /\ last'.steps[Len(last'.steps)] \in ExternalSteps
              extracted == g.r = "ok"
              eligible  == extracted /\ Eligible(g.g.deadline, today)
              dup       == extracted /\ InTable(tbl.rows, g.g)
          IN  \/ failed
              \/ /\ gain = (IF eligible /\ ~dup THEN 1 ELSE 0)
                 /\ ~extracted => last'.outcome = "unparsed"
                 /\ (extracted /\ ~eligible) => last'.outcome = "expired"
                 /\ (eligible /\ dup) => last'.outcome = "duplicate"
      ]_vars

\* C18: every call of a service is made inside a retry loop, and no call
\* ends with its first rate-limit error passed on to the caller.
C18_RetryCoverage ==
    /\ rt.outs # <<>> => rt.loop \in Loops
    /\ ~(rt.st = "Raised" /\ rt.outs \in {<<"RateLimitError">>, <<"HTTPError 429">>})

\* The rows stand by falling Match%
Falling(rows) ==
    \A i, j \in 1..Len(rows) :
        i < j => /\ rows[i].Match.t = "float" /\ rows[j].Match.t = "float"
                 /\ rows[i].Match.n >= rows[j].Match.n

\* C19: after every Analyze and every Clear the table of the session and the
\* rows of the CSV file stand by falling Match%.
C19_SortedTable ==
    /\ Falling(tbl.rows)
    /\ Falling(load_history(csv))

\* A row added with a higher Match% than the row that was there stands first,
\* in the session and in the file.
C19_Witness ==
    /\ last.kind = "analyze" /\ last.outcome = "added"
    /\ Len(tbl.rows) = 2
    /\ tbl.rows[1].URL = last.cand.g.url
    /\ tbl.rows[1].Match.n > tbl.rows[2].Match.n
    /\ load_history(csv) = tbl.rows

\* The place of a step in the order of the claim: extraction, deadline
\* check, duplicate check, embedding, rationale calls, append, persist
StepRank(step) ==
    CASE step = "chat search"     -> 1
      [] step = "extract"         -> 2
      [] step = "deadline_ok"     -> 3
      [] step = "duplicate check" -> 4
      [] step = "embed summary"   -> 5
      [] step = "embed mission"   -> 6
      [] step = "chat short"      -> 7
      [] step = "chat long"       -> 8
      [] step = "pdf"             -> 9
      [] step = "concat sort"     -> 10
      [] step = "save"            -> 11
      [] step = "success"         -> 12

\* C20: the steps of one Analyze are taken in the order extraction, deadline
\* check, duplicate check, embedding, rationale calls, append, persist, and
\* an embedding or rationale call is made only for a candidate that was
\* extracted, is eligible by its deadline and is not in the table.
C20_FilterBeforeRank ==
    [][ (last'.kind = "analyze" /\ tbl.set) =>
          LET g      == last'.cand
              steps  == last'.steps
              called == \E i \in 1..Len(steps) :
                            steps[i] \in {"embed summary", "embed mission",
                                          "chat short", "chat long"}
          IN  /\ \A i, j \in 1..Len(steps) :
                     i < j => StepRank(steps[i]) < StepRank(steps[j])
              /\ called => /\ g.r = "ok"
                           /\ Eligible(g.g.deadline, today)
                           /\ ~InTable(tbl.rows, g.g)
      ]_vars

\* A JSON value from which scrape can take a record: an object, or a list
\* whose first element is an object
ObjectFirst(v) ==
    \/ v.t = "dict"
    \/ v.t = "list" /\ v.e # <<>> /\ v.e[1].t = "dict"

\* C21: on a reply that is JSON of the wrong shape the extractor gives its
\* failure value: scrape returns None when the value is no object and no list
\* that starts with an object; a list adapter returns the empty list when the
\* value is no list, and only records made from objects otherwise; none of
\* them raises.
C21_WrongShape ==
    (exOut.r # "none" /\ json_loads(raw).ok) =>
        LET v == json_loads(raw).v
        IN  /\ (exOut.fn = "scrape" /\ ~ObjectFirst(v)) => exOut.r = "None"
            /\ (exOut.fn # "scrape" /\ v.t # "list") =>
                   (exOut.r = "ok" /\ exOut.g = List(<<>>))
            /\ (exOut.fn # "scrape" /\ v.t = "list") =>
                   /\ exOut.r = "ok"
                   /\ exOut.g.t = "list"
                   /\ \A i \in 1..Len(exOut.g.e) : exOut.g.e[i].t = "dict"

\* C22: the sleep after the failure of attempt i is base * (i + 1) in a
\* linear loop and base * 2^i in an exponential one, longer than the sleep
\* before it, and after every sleep the loop is Attempting again.
C22_BackoffSchedule ==
    [][ rt.st = "BackingOff" =>
          LET cfg == LoopCfg(rt.loop)
              n   == Len(rt.slept)
          IN  /\ Len(rt'.slept) = n + 1
              /\ rt'.slept[n + 1] = IF cfg.exp THEN cfg.base * Pow2(rt.i)
                                     ELSE cfg.base * (rt.i + 1)
              /\ n > 0 => rt'.slept[n + 1] > rt.slept[n]
              /\ rt'.st = "Attempting"
      ]_vars

\* C23: fetch_grants of test.py begins at most PROMPT_TRY rounds, ask_chat
\* calls the service at most MAX_RETRY times in each, the function returns in
\* the first round whose reply gives at least NUM_ROWS cleaned records, with
\* exactly the first NUM_ROWS of them, and it always comes to an end: it
\* returns, or the script stops with an error.
C23_Terminates ==
    /\ [](fg.fn = "test.fetch_grants" =>
            /\ fg.round <= PROMPT_TRY
            /\ Len(fg.calls) = fg.round
            /\ \A i \in 1..Len(fg.calls) : fg.calls[i] \in 1..MAX_RETRY
            /\ \A i \in 1..Len(fg.raws) :
                   (i < Len(fg.raws) \/ fg.st # "Returned") =>
                       ~(RoundOf(fg.raws[i]).r = "ok"
                         /\ Len(RoundOf(fg.raws[i]).g.e) >= NUM_ROWS)
            /\ fg.st = "Returned" =>
                   /\ Len(fg.res.e) = NUM_ROWS
                   /\ fg.res.e = Take(RoundOf(fg.raws[Len(fg.raws)]).g.e, NUM_ROWS))
    /\ (fg.fn = "test.fetch_grants") ~> (fg.st \in {"Returned", "Stopped", "Raised"})

\* Returned in the last round of the budget, after a round in which ask_chat
\* used all its calls but the last on rate limits
C23_Witness ==
    /\ fg.fn = "test.fetch_grants" /\ fg.st = "Returned"
    /\ fg.round = PROMPT_TRY
    /\ \E i \in 1..Len(fg.calls) : fg.calls[i] = MAX_RETRY
    /\ Len(fg.res.e) = NUM_ROWS

\* C24: a ranking function that returns gives min(n, SHOW_TOP) rows for n
\* candidates, numbered 1, 2, ... in Rank, by falling %Match, each row one
\* candidate with its score, and no candidate left out has a higher %Match
\* than the last row; no candidates, no rows.
C24_TopN ==
    (bat.fn \in RankFns /\ bat.st = "Published") =>
        LET n    == Len(bat.cands)
            k    == Len(bat.rows)
            kept == {bat.rows[i].id : i \in 1..k}
            sc(c) == Score(bat.fn, bat.cands[c], TRUE)
        IN  /\ k = Min({n, SHOW_TOP})
            /\ \A i \in 1..k : /\ bat.rows[i].Rank = i
                                /\ bat.rows[i].id \in 1..n
                                /\ bat.rows[i].score = sc(bat.rows[i].id)
            /\ Cardinality(kept) = k
            /\ \A i, j \in 1..k : i < j => bat.rows[i].score >= bat.rows[j].score
            /\ \A c \in (1..n) \ kept : sc(c) <= bat.rows[k].score

\* More candidates than rows to show, the best of them arrived last
C24_Witness ==
    /\ bat.fn = "capstone.rank_grants" /\ bat.st = "Published"
    /\ Len(bat.cands) = SHOW_TOP + 2
    /\ Len(bat.rows) = SHOW_TOP
    /\ bat.rows[1].id = SHOW_TOP + 2

\* The urls of the rows in grants_history.csv
Persisted(file) == {file.rows[i].URL : i \in 1..Len(file.rows)}

\* C25: no action but a Clear takes a row out of grants_history.csv, with
\* two sessions that act one after the other.
C25_NoLostUpdate ==
    [][last'.kind # "clear" => Persisted(csv) \subseteq Persisted(csv')]_vars

====
